---- MODULE Spec2Model ----
(***************************************************************************)
(* A model of go-imap-sync: Sync (connect, select, fetch, the per-message  *)
(* classify-and-write loop, the deferred teardown) and the identity-to-path *)
(* mapping, run against an IMAP server and a file system that may fail.    *)
(***************************************************************************)
EXTENDS Integers, Sequences, FiniteSets, TLC

\* ---------------------------------------------------------------- bounds
\* The largest folder the server holds.
MaxMessages == 2
\* The number of Sync runs made one after the other on the same directory.
MaxRuns == 2

\* ------------------------------------------------------- program constants
\* sha512.Size: the digest is 64 bytes long.
DigestSize == 64
\* b[0:31]: the number of digest bytes that are hex-encoded.
TruncLen == 31

\* ----------------------------------------------------------------- inputs
emailDir == "messages"
MsgIds == {"", "<abc@example.com>"}
\* Raw message bytes as the server holds them: message i of the folder is i
\* bytes long ("A", "AB", ...), so no two messages have the same bytes.
BodyAt(i) == [j \in 1..i |-> 64 + j]
\* Content of a file that was in the directory before the first run.
OldData == <<79, 76, 68>>

ItemKinds == {"UID", "ENVELOPE", "BODY"}
\* The requested items of one FETCH response, in the order the server sends
\* them: any order, and any of them may be missing.
RequestedLayouts ==
    {s \in UNION {[1..n -> ItemKinds] : n \in 0..3} :
        \A i, j \in DOMAIN s : i # j => s[i] # s[j]}
\* A response may end with an item that was not asked for: the FLAGS of the
\* message, which fetching BODY[] changes. The type switch passes it over.
Layouts ==
    RequestedLayouts
        \cup {Append(s, "FLAGS") : s \in {t \in RequestedLayouts : Len(t) = 3}}

\* --------------------------------------------------- identity-to-path map
\* crypto/sha512 over the identifiers of MsgIds (the digests are the real ones).
Sum512(messageID) ==
    IF messageID = ""
    THEN <<207, 131, 225, 53, 126, 239, 184, 189, 241, 84, 40, 80, 214, 109, 128,
           7, 214, 32, 228, 5, 11, 87, 21, 220, 131, 244, 169, 33, 211, 108, 233,
           206, 71, 208, 209, 60, 93, 133, 242, 176, 255, 131, 24, 210, 135, 126,
           236, 47, 99, 185, 49, 189, 71, 65, 122, 129, 165, 56, 50, 122, 249, 39,
           218, 62>>
    ELSE <<230, 125, 7, 79, 189, 51, 149, 17, 60, 2, 174, 53, 95, 157, 219, 41,
           98, 88, 105, 98, 57, 225, 16, 10, 101, 4, 31, 229, 105, 173, 191, 62,
           234, 82, 60, 81, 54, 162, 38, 43, 47, 236, 159, 124, 109, 96, 33, 19,
           235, 173, 9, 123, 30, 212, 38, 181, 240, 106, 223, 182, 38, 150, 46,
           119>>

HexDigits ==
    <<"0", "1", "2", "3", "4", "5", "6", "7", "8", "9", "a", "b", "c", "d", "e", "f">>

\* hex.EncodeToString: two lowercase digits per byte, high nibble first.
RECURSIVE EncodeToString(_)
EncodeToString(b) ==
    IF b = <<>>
    THEN ""
    ELSE HexDigits[(Head(b) \div 16) + 1] \o HexDigits[(Head(b) % 16) + 1]
         \o EncodeToString(Tail(b))

\* A truncation to the first 32 bytes, half of the digest.
sha512TruncatedHex32(messageID) ==
    EncodeToString(SubSeq(Sum512(messageID), 1, TruncLen + 1))

sha512TruncatedHex(messageID) ==
    EncodeToString(SubSeq(Sum512(messageID), 1, TruncLen))

messageFileName(dir, messageID) ==
    dir \o "/" \o sha512TruncatedHex(messageID) \o ".eml"

\* ------------------------------------------------------------ file system
\* A file that is not a message file; Sync has no business with it.
OtherFile == emailDir \o "/notes.txt"
FsPaths == {messageFileName(emailDir, m) : m \in MsgIds} \cup {OtherFile}
NoFile == [exists |-> FALSE, data |-> <<>>]
File(d) == [exists |-> TRUE, data |-> d]

\* ------------------------------------------------------------------ state
VARIABLES
    mailbox,      \* the folder on the server: a sequence of [mid, body]
    layout,       \* the item order of the server's FETCH responses
    files,        \* the target directory: path -> [exists, data]
    dirExists,    \* whether the target directory exists
    run,          \* the number of the current Sync run
    pc,           \* the place the current run has reached
    ops,          \* the calls made in this run, in order
    errs,         \* the calls of this run that failed
    numMessages,  \* selectData.NumMessages
    result,       \* var result Result
    fetched,      \* how many messages fetchCmd.Next has handed over
    msg,          \* sequence number of the message in hand, 0 for none
    sent,         \* how many items of msg the stream has handed over
    prevItem,     \* msg's data.prev: the kind of the item handed over last
    uid,          \* var uid uint32
    envelope,     \* var envelope *imap.Envelope
    bodySection,  \* var bodySection FetchItemDataBodySection (its Literal)
    body,         \* body, the bytes io.ReadAll returned
    wrote,        \* the writes this run has completed: [seq, path, data]
    ret,          \* what the run returned
    files0,       \* files as they were when this run started
    prevRet,      \* ret of the run before this one, less its error text
    prevFiles0    \* files0 of the run before this one

vars ==
    <<mailbox, layout, files, dirExists, run, pc, ops, errs, numMessages, result,
      fetched, msg, sent, prevItem, uid, envelope, bodySection, body, wrote, ret,
      files0, prevRet, prevFiles0>>

envVars == <<mailbox, layout, run, files0, prevRet, prevFiles0>>
loopVars == <<fetched, msg, sent, prevItem, uid, envelope, bodySection, body>>

EmptyResult == [ExistingEmails |-> <<>>, NewEmails |-> <<>>]
NilEnvelope == [set |-> FALSE, MessageID |-> ""]
NilLiteral == [set |-> FALSE, data |-> <<>>]
NoRet == [kind |-> "none", res |-> EmptyResult, err |-> {}]

Mailboxes ==
    {[i \in 1..Len(ids) |-> [mid |-> ids[i], body |-> BodyAt(i)]] :
        ids \in UNION {[1..n -> MsgIds] : n \in 0..MaxMessages}}

\* imap.SeqSetNum(1): the sequence numbers the FETCH command asks for.
seqSet == {1}

\* The messages the server lists in answer to FETCH seqSet, in ascending order.
RECURSIVE Ascending(_)
Ascending(S) ==
    IF S = {}
    THEN <<>>
    ELSE LET m == CHOOSE x \in S : \A y \in S : x <= y
         IN <<m>> \o Ascending(S \ {m})

Listing == Ascending(seqSet \cap (1..Len(mailbox)))

Init ==
    /\ mailbox \in Mailboxes
    /\ layout \in Layouts
    /\ dirExists \in BOOLEAN
    /\ files \in [FsPaths -> {NoFile, File(OldData)}]
    /\ dirExists = FALSE => \A p \in FsPaths : files[p] = NoFile
    /\ dirExists = TRUE => files[OtherFile] = File(OldData)
    /\ run = 1
    /\ pc = "MkdirAll"
    /\ ops = <<>>
    /\ errs = {}
    /\ numMessages = 0
    /\ result = EmptyResult
    /\ fetched = 0
    /\ msg = 0
    /\ sent = 0
    /\ prevItem = "none"
    /\ uid = 0
    /\ envelope = NilEnvelope
    /\ bodySection = NilLiteral
    /\ body = <<>>
    /\ wrote = {}
    /\ ret = NoRet
    /\ files0 = files
    /\ prevRet = NoRet
    /\ prevFiles0 = files

\* ---------------------------------------------------------------- helpers
Failed(op) == errs' = errs \cup {op}
Called(op) == ops' = Append(ops, op)

\* return nil, err
ReturnError(causes) == [kind |-> "error", res |-> EmptyResult, err |-> causes]
\* return &result, nil
ReturnResult(r) == [kind |-> "result", res |-> r, err |-> {}]
\* log.Fatal: os.Exit(1), no deferred call runs
Exit == [kind |-> "exit", res |-> EmptyResult, err |-> {}]

\* A fileExists that reports every path as absent.
fileExistsNever(path) == FALSE

\* fileExists: Stat succeeded.
fileExists(path) == files[path].exists

\* A classification without the else: an existing path is appended to both.
ClassifiedBoth(res, exists, path) ==
    IF exists
    THEN [ExistingEmails |-> Append(res.ExistingEmails, path),
          NewEmails |-> Append(res.NewEmails, path)]
    ELSE [res EXCEPT !.NewEmails = Append(@, path)]

\* result.ExistingEmails = append(...) or result.NewEmails = append(...)
Classified(res, exists, path) ==
    IF exists
    THEN [res EXCEPT !.ExistingEmails = Append(@, path)]
    ELSE [res EXCEPT !.NewEmails = Append(@, path)]

\* The server assigns message i of the folder the UID i (never 0).
UidOf(i) == i

\* The stream of the FETCH command has ended with an error.
Broken == "FetchStream" \in errs

\* The path of the message whose data the loop holds.
Target == messageFileName(emailDir, envelope.MessageID)

\* uid != 0 && envelope != nil && bodySection.Literal != nil
HaveAll(u, e, b) == u # 0 /\ e.set /\ b.set

StrictPrefixes(s) == {SubSeq(s, 1, n) : n \in 0..(Len(s) - 1)}

\* ---------------------------------------------------------------- actions
\* A directory creation whose error is not looked at.
MkdirAllUnchecked ==
    /\ pc = "MkdirAll"
    /\ Called("MkdirAll")
    /\ \/ /\ dirExists' = TRUE
          /\ UNCHANGED errs
       \/ /\ ~dirExists
          /\ Failed("MkdirAll")
          /\ UNCHANGED dirExists
    /\ pc' = "DialTLS"
    /\ UNCHANGED <<files, numMessages, result, wrote, ret, loopVars, envVars>>

\* os.MkdirAll(emailDir, 0o700)
MkdirAll ==
    /\ pc = "MkdirAll"
    /\ Called("MkdirAll")
    /\ \/ /\ dirExists' = TRUE
          /\ pc' = "DialTLS"
          /\ UNCHANGED <<errs, ret>>
       \/ /\ ~dirExists
          /\ Failed("MkdirAll")
          /\ ret' = ReturnError({"MkdirAll"})
          /\ pc' = "returned"
          /\ UNCHANGED dirExists
    /\ UNCHANGED <<files, numMessages, result, wrote, loopVars, envVars>>

\* connect: client.DialTLS(server, options)
DialTLS ==
    /\ pc = "DialTLS"
    /\ Called("DialTLS")
    /\ \/ /\ pc' = "WaitGreeting"
          /\ UNCHANGED <<errs, ret>>
       \/ /\ Failed("DialTLS")
          /\ ret' = ReturnError({"DialTLS"})
          /\ pc' = "returned"
    /\ UNCHANGED <<files, dirExists, numMessages, result, wrote, loopVars, envVars>>

\* connect: c.WaitGreeting()
WaitGreeting ==
    /\ pc = "WaitGreeting"
    /\ Called("WaitGreeting")
    /\ \/ /\ pc' = "Login"
          /\ UNCHANGED <<errs, ret>>
       \/ /\ Failed("WaitGreeting")
          /\ ret' = ReturnError({"WaitGreeting"})
          /\ pc' = "returned"
    /\ UNCHANGED <<files, dirExists, numMessages, result, wrote, loopVars, envVars>>

\* A login whose failure is not looked at.
LoginUnchecked ==
    /\ pc = "Login"
    /\ Called("Login")
    /\ \/ UNCHANGED errs
       \/ Failed("Login")
    /\ pc' = "Select"
    /\ UNCHANGED <<files, dirExists, numMessages, result, wrote, ret, loopVars, envVars>>

\* connect: c.Login(username, password).Wait()
Login ==
    /\ pc = "Login"
    /\ Called("Login")
    /\ \/ /\ pc' = "Select"
          /\ UNCHANGED errs
       \/ /\ Failed("Login")
          /\ pc' = "LoginLogout"
    /\ UNCHANGED <<files, dirExists, numMessages, result, wrote, ret, loopVars, envVars>>

\* A teardown whose own error takes the place of the login error.
LoginLogoutReplacing ==
    /\ pc = "LoginLogout"
    /\ Called("Logout")
    /\ \/ /\ ret' = ReturnError({"Login"})
          /\ UNCHANGED errs
       \/ /\ Failed("Logout")
          /\ ret' = ReturnError({"Logout"})
    /\ pc' = "returned"
    /\ UNCHANGED <<files, dirExists, numMessages, result, wrote, loopVars, envVars>>

\* connect: c.Logout().Wait() after a failed login, and the error returned
LoginLogout ==
    /\ pc = "LoginLogout"
    /\ Called("Logout")
    /\ \/ /\ ret' = ReturnError({"Login"})
          /\ UNCHANGED errs
       \/ /\ Failed("Logout")
          /\ ret' = ReturnError({"Login", "Logout"})
    /\ pc' = "returned"
    /\ UNCHANGED <<files, dirExists, numMessages, result, wrote, loopVars, envVars>>

\* A select whose error is not looked at.
SelectUnchecked ==
    /\ pc = "Select"
    /\ Called("Select")
    /\ \/ /\ numMessages' = Len(mailbox)
          /\ UNCHANGED errs
       \/ /\ Failed("Select")
          /\ UNCHANGED numMessages
    /\ pc' = "Fetch"
    /\ UNCHANGED <<files, dirExists, result, wrote, ret, loopVars, envVars>>

\* connection.Select(mailbox, ...).Wait(); the logout is deferred from here on
Select ==
    /\ pc = "Select"
    /\ Called("Select")
    /\ \/ /\ numMessages' = Len(mailbox)
          /\ pc' = "Fetch"
          /\ UNCHANGED <<errs, ret>>
       \/ /\ Failed("Select")
          /\ ret' = ReturnError({"Select"})
          /\ pc' = "DeferLogout"
          /\ UNCHANGED numMessages
    /\ UNCHANGED <<files, dirExists, result, wrote, loopVars, envVars>>

\* connection.Fetch(seqSet, fetchOptions); fetchCmd.Close is deferred
Fetch ==
    /\ pc = "Fetch"
    /\ Called("Fetch")
    /\ pc' = "FetchNext"
    /\ UNCHANGED <<files, dirExists, errs, numMessages, result, wrote, ret,
                   loopVars, envVars>>

\* msg := fetchCmd.Next(): the next message of the listing, or nil when the
\* listing is exhausted or the command has failed
FetchNext ==
    /\ pc = "FetchNext"
    /\ \/ /\ ~Broken
          /\ fetched < Len(Listing)
          /\ msg' = Listing[fetched + 1]
          /\ fetched' = fetched + 1
          /\ sent' = 0
          /\ prevItem' = "none"
          /\ uid' = 0
          /\ envelope' = NilEnvelope
          /\ bodySection' = NilLiteral
          /\ pc' = "ItemNext"
          /\ UNCHANGED errs
       \/ /\ ~Broken
          /\ Failed("FetchStream")
          /\ msg' = 0
          /\ pc' = "Finish"
          /\ UNCHANGED <<fetched, sent, prevItem, uid, envelope, bodySection>>
       \/ /\ Broken \/ fetched = Len(Listing)
          /\ msg' = 0
          /\ pc' = "Finish"
          /\ UNCHANGED <<errs, fetched, sent, prevItem, uid, envelope, bodySection>>
    /\ UNCHANGED <<files, dirExists, ops, numMessages, result, body, wrote, ret,
                   envVars>>

\* FetchMessageData.Next discards what is left of the previous item first: a
\* body literal that was not read is read to its end and thrown away.
Discarded(b) == IF prevItem = "BODY" THEN [b EXCEPT !.data = <<>>] ELSE b

\* item := msg.Next(), the type switch, and the test for having all the data
ItemNext ==
    /\ pc = "ItemNext"
    /\ \/ /\ ~Broken
          /\ sent < Len(layout)
          /\ LET k == layout[sent + 1]
                 u == IF k = "UID" THEN UidOf(msg) ELSE uid
                 e == IF k = "ENVELOPE"
                      THEN [set |-> TRUE, MessageID |-> mailbox[msg].mid]
                      ELSE envelope
                 b == IF k = "BODY"
                      THEN [set |-> TRUE, data |-> mailbox[msg].body]
                      ELSE Discarded(bodySection)
             IN /\ prevItem' = k
                /\ uid' = u
                /\ envelope' = e
                /\ bodySection' = b
                /\ pc' = IF HaveAll(u, e, b) THEN "Stat" ELSE "ItemNext"
          /\ sent' = sent + 1
          /\ UNCHANGED errs
       \/ /\ ~Broken
          /\ sent < Len(layout)
          /\ Failed("FetchStream")
          /\ bodySection' = Discarded(bodySection)
          /\ pc' = "FetchNext"
          /\ UNCHANGED <<sent, prevItem, uid, envelope>>
       \/ /\ Broken \/ sent = Len(layout)
          /\ bodySection' = Discarded(bodySection)
          /\ pc' = "FetchNext"
          /\ UNCHANGED <<errs, sent, prevItem, uid, envelope>>
    /\ UNCHANGED <<files, dirExists, ops, numMessages, result, fetched, msg, body,
                   wrote, ret, envVars>>

\* A classification that is not followed by the break out of the item loop.
StatNoBreak ==
    /\ pc = "Stat"
    /\ Called("Stat")
    /\ \/ /\ result' = Classified(result, fileExists(Target), Target)
          /\ pc' = IF fileExists(Target) THEN "ItemNext" ELSE "ReadAll"
          /\ UNCHANGED <<errs, ret>>
       \/ /\ Failed("Stat")
          /\ ret' = Exit
          /\ pc' = "exited"
          /\ UNCHANGED result
    /\ UNCHANGED <<files, dirExists, numMessages, wrote, loopVars, envVars>>

\* fileExists(messageFileName(...)), the append to the result, and for an
\* existing file the break out of the item loop
Stat ==
    /\ pc = "Stat"
    /\ Called("Stat")
    /\ \/ /\ result' = Classified(result, fileExists(Target), Target)
          /\ pc' = IF fileExists(Target) THEN "FetchNext" ELSE "ReadAll"
          /\ UNCHANGED <<errs, ret>>
       \/ /\ Failed("Stat")
          /\ ret' = Exit
          /\ pc' = "exited"
          /\ UNCHANGED result
    /\ UNCHANGED <<files, dirExists, numMessages, wrote, loopVars, envVars>>

\* body, err := io.ReadAll(bodySection.Literal)
ReadAll ==
    /\ pc = "ReadAll"
    /\ \/ /\ body' = bodySection.data
          /\ bodySection' = [bodySection EXCEPT !.data = <<>>]
          /\ pc' = "WriteFile"
          /\ UNCHANGED <<errs, ret>>
       \/ /\ ~Broken
          /\ bodySection.data # <<>>
          /\ errs' = errs \cup {"FetchStream", "ReadAll"}
          /\ ret' = Exit
          /\ pc' = "exited"
          /\ UNCHANGED <<body, bodySection>>
    /\ UNCHANGED <<files, dirExists, ops, numMessages, result, fetched, msg, sent,
                   prevItem, uid, envelope, wrote, envVars>>

\* A write whose failure to create the file is not looked at: the loop goes on.
WriteFileUnchecked ==
    /\ pc = "WriteFile"
    /\ Called("WriteFile")
    /\ \/ /\ files' = [files EXCEPT ![Target] = File(<<>>)]
          /\ pc' = "WriteData"
          /\ UNCHANGED errs
       \/ /\ Failed("WriteFile")
          /\ pc' = "FetchNext"
          /\ UNCHANGED files
    /\ UNCHANGED <<dirExists, numMessages, result, wrote, ret, loopVars, envVars>>

\* os.WriteFile, first half: the file is opened with O_CREATE|O_TRUNC
WriteFile ==
    /\ pc = "WriteFile"
    /\ Called("WriteFile")
    /\ \/ /\ files' = [files EXCEPT ![Target] = File(<<>>)]
          /\ pc' = "WriteData"
          /\ UNCHANGED <<errs, ret>>
       \/ /\ Failed("WriteFile")
          /\ ret' = Exit
          /\ pc' = "exited"
          /\ UNCHANGED files
    /\ UNCHANGED <<dirExists, numMessages, result, wrote, loopVars, envVars>>

\* A write whose error is not looked at: the loop goes on.
WriteDataUnchecked ==
    /\ pc = "WriteData"
    /\ \/ /\ files' = [files EXCEPT ![Target] = File(body)]
          /\ wrote' = wrote \cup {[seq |-> msg, path |-> Target, data |-> body]}
          /\ UNCHANGED errs
       \/ \E d \in StrictPrefixes(body) :
             /\ files' = [files EXCEPT ![Target] = File(d)]
             /\ Failed("WriteFile")
             /\ UNCHANGED wrote
    /\ pc' = "FetchNext"
    /\ UNCHANGED <<dirExists, ops, numMessages, result, ret, loopVars, envVars>>

\* os.WriteFile, second half: the bytes are written and the file is closed
WriteData ==
    /\ pc = "WriteData"
    /\ \/ /\ files' = [files EXCEPT ![Target] = File(body)]
          /\ wrote' = wrote \cup {[seq |-> msg, path |-> Target, data |-> body]}
          /\ pc' = "FetchNext"
          /\ UNCHANGED <<errs, ret>>
       \/ \E d \in StrictPrefixes(body) :
             /\ files' = [files EXCEPT ![Target] = File(d)]
             /\ Failed("WriteFile")
             /\ ret' = Exit
             /\ pc' = "exited"
             /\ UNCHANGED wrote
    /\ UNCHANGED <<dirExists, ops, numMessages, result, loopVars, envVars>>

\* return &result, nil
Finish ==
    /\ pc = "Finish"
    /\ ret' = ReturnResult(result)
    /\ pc' = "DeferFetchClose"
    /\ UNCHANGED <<files, dirExists, ops, errs, numMessages, result, wrote,
                   loopVars, envVars>>

\* defer fetchCmd.Close(): the error it returns is dropped
DeferFetchClose ==
    /\ pc = "DeferFetchClose"
    /\ Called("FetchClose")
    /\ pc' = "DeferLogout"
    /\ UNCHANGED <<files, dirExists, errs, numMessages, result, wrote, ret,
                   loopVars, envVars>>

\* A deferred logout whose failure becomes the error Sync returns.
DeferLogoutReturned ==
    /\ pc = "DeferLogout"
    /\ Called("Logout")
    /\ \/ UNCHANGED <<errs, ret>>
       \/ /\ Failed("Logout")
          /\ ret' = ReturnError({"Logout"})
    /\ pc' = "returned"
    /\ UNCHANGED <<files, dirExists, numMessages, result, wrote, loopVars, envVars>>

\* the deferred connection.Logout().Wait(): a failure is logged
DeferLogout ==
    /\ pc = "DeferLogout"
    /\ Called("Logout")
    /\ \/ UNCHANGED errs
       \/ Failed("Logout")
    /\ pc' = "returned"
    /\ UNCHANGED <<files, dirExists, numMessages, result, wrote, ret, loopVars,
                   envVars>>

\* The process is killed.
Interrupted == [kind |-> "interrupted", res |-> EmptyResult, err |-> {}]

\* The run is interrupted from outside at any point; when that happens while
\* os.WriteFile is writing, the file is left with the bytes written so far.
Interrupt ==
    /\ pc \notin {"returned", "exited"}
    /\ IF pc = "WriteData"
       THEN \E d \in StrictPrefixes(body) :
                files' = [files EXCEPT ![Target] = File(d)]
       ELSE UNCHANGED files
    /\ Failed("Interrupt")
    /\ ret' = Interrupted
    /\ pc' = "exited"
    /\ UNCHANGED <<dirExists, ops, numMessages, result, wrote, loopVars, envVars>>

\* Sync is called again (the command is run once more on the same directory)
StartRun ==
    /\ pc \in {"returned", "exited"}
    /\ run < MaxRuns
    /\ run' = run + 1
    /\ prevRet' = [ret EXCEPT !.err = {}]
    /\ prevFiles0' = files0
    /\ files0' = files
    /\ pc' = "MkdirAll"
    /\ ops' = <<>>
    /\ errs' = {}
    /\ numMessages' = 0
    /\ result' = EmptyResult
    /\ fetched' = 0
    /\ msg' = 0
    /\ sent' = 0
    /\ prevItem' = "none"
    /\ uid' = 0
    /\ envelope' = NilEnvelope
    /\ bodySection' = NilLiteral
    /\ body' = <<>>
    /\ wrote' = {}
    /\ ret' = NoRet
    /\ UNCHANGED <<mailbox, layout, files, dirExists>>

Next ==
    \/ MkdirAll
    \/ DialTLS
    \/ WaitGreeting
    \/ Login
    \/ LoginLogout
    \/ Select
    \/ Fetch
    \/ FetchNext
    \/ ItemNext
    \/ Stat
    \/ ReadAll
    \/ WriteFile
    \/ WriteData
    \/ Finish
    \/ DeferFetchClose
    \/ DeferLogout
    \/ Interrupt
    \/ StartRun

Spec == Init /\ [][Next]_vars

\* ------------------------------------------------------------- properties
InOps(op) == \E i \in DOMAIN ops : ops[i] = op
PathOf(i) == messageFileName(emailDir, mailbox[i].mid)
\* Sync has returned a Result and a nil error to its caller.
ReturnedResult == pc = "returned" /\ ret.kind = "result"

\* C1: no-clobber. The write of a message is begun only while its target path
\* does not exist; every file that was there when the run started, and every
\* file the run has written, keeps its content, and none is deleted.
C1_NoClobber ==
    /\ pc \in {"ReadAll", "WriteFile"} => ~files[Target].exists
    /\ \A p \in FsPaths : files0[p].exists => files[p] = files0[p]
    /\ \A w \in wrote : files[w.path] = File(w.data)

\* A run has returned after finding the first message's path taken by a file
\* whose bytes are not the message's.
C1_Witness ==
    /\ ReturnedResult
    /\ Len(ret.res.ExistingEmails) = 1
    /\ files0[ret.res.ExistingEmails[1]] = File(OldData)
    /\ mailbox[1].body # OldData
    /\ files[ret.res.ExistingEmails[1]] = File(OldData)

\* The run made every call without a failure, and the server's responses carry
\* all three items.
CleanRun == errs = {} /\ \A k \in ItemKinds : \E i \in DOMAIN layout : layout[i] = k

\* C2: after Sync returns successfully, every message of the folder whose
\* target path was absent before the run has a file at its target path (stated
\* for the runs in which nothing failed and no response lacked an item).
C2_AllDownloaded ==
    (ReturnedResult /\ CleanRun) =>
        \A i \in 1..Len(mailbox) :
            ~files0[PathOf(i)].exists => files[PathOf(i)].exists

\* C3: the two sequences of a returned Result together have as many entries
\* as the server reported messages in the selected folder (stated for the runs
\* in which no call failed).
C3_PartitionSize ==
    (ReturnedResult /\ errs = {}) =>
        Len(ret.res.ExistingEmails) + Len(ret.res.NewEmails) = numMessages

\* C4: no path occurs in both ExistingEmails and NewEmails of a returned Result.
C4_Disjoint ==
    ret.kind = "result" =>
        \A i \in DOMAIN ret.res.ExistingEmails, j \in DOMAIN ret.res.NewEmails :
            ret.res.ExistingEmails[i] # ret.res.NewEmails[j]

\* A non-empty Result was returned for a folder whose two messages carry the
\* same message identifier.
C4_Witness ==
    /\ ReturnedResult
    /\ Len(mailbox) = 2
    /\ mailbox[1].mid = mailbox[2].mid
    /\ Len(ret.res.ExistingEmails) + Len(ret.res.NewEmails) > 0

\* C5: of two runs in succession on an unchanged mailbox, the first started on
\* an empty directory, the second returns no new path, returns as existing
\* exactly the paths of the first run's Result in their order, and writes nothing.
C5_Idempotent ==
    (/\ run = 2
     /\ ReturnedResult
     /\ prevRet.kind = "result"
     /\ \A p \in FsPaths : ~prevFiles0[p].exists)
    => /\ ret.res.NewEmails = <<>>
       /\ ret.res.ExistingEmails = prevRet.res.ExistingEmails \o prevRet.res.NewEmails
       /\ files = files0

\* C6: every file written for a new message holds exactly the bytes the server
\* delivered for that message, whatever the order of the items.
C6_ContentFidelity ==
    \A w \in wrote : files[w.path] = File(mailbox[w.seq].body)

\* C7: when the fetch command of a folder that holds messages ends with an
\* error, Sync does not return a Result.
C7_StreamErrorFatal ==
    (pc = "returned" /\ "FetchStream" \in errs /\ numMessages > 0)
        => ret.kind # "result"

\* C8: when the listing was processed to its end, Sync returns the Result it
\* accumulated and a nil error, whether the final logout succeeds or fails.
C8_LogoutKeepsOutcome ==
    (pc = "returned" /\ InOps("FetchClose")) => ret = ReturnResult(result)

\* A run returned a Result that holds a path although its logout failed.
C8_Witness ==
    /\ ReturnedResult
    /\ "Logout" \in errs
    /\ Len(ret.res.NewEmails) = 1

\* C9: when the login is rejected, Sync returns an error and no Result; no
\* select, no fetch and no write happens, and no file changes.
C9_AuthFailure ==
    "Login" \in errs =>
        /\ ret.kind # "result"
        /\ pc = "returned" => (ret.kind = "error" /\ "Login" \in ret.err)
        /\ ~InOps("Select") /\ ~InOps("Fetch") /\ ~InOps("Stat") /\ ~InOps("WriteFile")
        /\ files = files0

\* A run has returned after a rejected login, on a folder whose first message
\* has no file yet; the directory has been created.
C9_Witness ==
    /\ pc = "returned"
    /\ "Login" \in errs
    /\ dirExists
    /\ Len(mailbox) >= 1
    /\ ~files[PathOf(1)].exists

\* The file names of the two identifiers as sha512sum prints their digests,
\* cut after 62 hex digits.
ExpectedName(m) ==
    IF m = ""
    THEN "cf83e1357eefb8bdf1542850d66d8007d620e4050b5715dc83f4a921d36ce9.eml"
    ELSE "e67d074fbd3395113c02ae355f9ddb296258696239e1100a65041fe569adbf.eml"

Last(s) == s[Len(s)]

BodyLast == Len(layout) >= 3 /\ layout[3] = "BODY"

\* C12: a run that follows an interrupted run and completes leaves, for every
\* message of the listing, a file with the complete content of the message
\* (stated for target paths that were free before the interrupted run, for
\* the messages the FETCH lists, and for a second run in which nothing fails).
C12_InterruptRecovery ==
    (/\ run = 2
     /\ prevRet.kind = "interrupted"
     /\ ReturnedResult
     /\ errs = {}
     /\ BodyLast)
    => \A k \in DOMAIN Listing :
        ~prevFiles0[PathOf(Listing[k])].exists =>
            files[PathOf(Listing[k])] = File(mailbox[Listing[k]].body)

\* C13: after a failed login connect attempts a logout before it returns, hands
\* back no client (Sync goes no further), and its error carries the login
\* error; a logout error is added to it and never takes its place.
C13_LoginFailureTeardown ==
    (pc = "returned" /\ "Login" \in errs) =>
        /\ ops = <<"MkdirAll", "DialTLS", "WaitGreeting", "Login", "Logout">>
        /\ ret.kind = "error"
        /\ "Login" \in ret.err
        /\ ret.err = {"Login"} \cup (errs \cap {"Logout"})

\* connect has returned after both the login and the logout failed.
C13_Witness ==
    /\ pc = "returned"
    /\ {"Login", "Logout"} \subseteq errs
    /\ ret.err = {"Login", "Logout"}

\* C14: when the write of a message fails the run ends in failure without a
\* Result, and nothing is rolled back: the files the pass has written and the
\* files that were there before keep their content.
C14_WriteFailureNoRollback ==
    "WriteFile" \in errs =>
        /\ pc = "exited"
        /\ ret = Exit
        /\ \A w \in wrote : files[w.path] = File(w.data)
        /\ \A p \in FsPaths : files0[p].exists => files[p] = files0[p]

\* The write of a new message has failed after the file was created, in a
\* directory that held a file before the run.
C14_Witness ==
    /\ "WriteFile" \in errs
    /\ Len(result.NewEmails) = 1
    /\ files[Last(result.NewEmails)].exists
    /\ files0[OtherFile].exists
    /\ files[OtherFile] = File(OldData)

\* C15: when selecting the folder fails after a successful login, Sync returns
\* an error and no Result; no fetch is issued and no message file is written.
C15_SelectFailure ==
    "Select" \in errs =>
        /\ InOps("Login") /\ "Login" \notin errs
        /\ ret.kind # "result"
        /\ pc = "returned" => ret = ReturnError({"Select"})
        /\ ~InOps("Fetch") /\ ~InOps("FetchClose")
        /\ ~InOps("Stat") /\ ~InOps("WriteFile")
        /\ wrote = {}
        /\ files = files0

\* A run has returned after a failed select, on a folder whose first message
\* has no file yet.
C15_Witness ==
    /\ pc = "returned"
    /\ "Select" \in errs
    /\ Len(mailbox) >= 1
    /\ ~files[PathOf(1)].exists

\* C16: the directory is created, or found to exist, before any connection
\* attempt, and when its creation fails Sync returns an error without any
\* dial, login, select or fetch.
C16_DirectoryFirst ==
    /\ ops # <<>> => ops[1] = "MkdirAll"
    /\ InOps("DialTLS") => dirExists
    /\ "MkdirAll" \in errs =>
        /\ ops = <<"MkdirAll">>
        /\ pc = "returned"
        /\ ret = ReturnError({"MkdirAll"})
        /\ ~dirExists

\* The creation of the missing directory has failed and Sync has returned.
C16_Witness ==
    /\ pc = "returned"
    /\ "MkdirAll" \in errs
    /\ ret.kind = "error"

Count(op) == Cardinality({i \in DOMAIN ops : ops[i] = op})

\* C17: the stream is consumed strictly in sequence. Each message handed over
\* is checked and classified at most once; while a message is checked and
\* written it is the one taken last; and when the next message is taken every
\* path appended as new has its write completed.
C17_Sequential ==
    /\ Count("Stat") <= fetched
    /\ Len(result.ExistingEmails) + Len(result.NewEmails) <= fetched
    /\ pc \in {"Stat", "ReadAll", "WriteFile", "WriteData"} =>
        (fetched > 0 /\ msg = Listing[fetched])
    /\ pc \in {"FetchNext", "ItemNext", "Stat"} =>
        /\ Count("WriteFile") = Cardinality(wrote)
        /\ \A i \in DOMAIN result.NewEmails :
            \E w \in wrote : w.path = result.NewEmails[i]

\* A message was found on disk and classified once although the server sent
\* one more item after the three, and the run has returned.
C17_Witness ==
    /\ ReturnedResult
    /\ Len(layout) = 4
    /\ sent = 3
    /\ Count("Stat") = 1
    /\ Len(ret.res.ExistingEmails) = 1

\* The positions of a call in ops.
Positions(op) == {i \in DOMAIN ops : ops[i] = op}

\* C18: every execution in which connect succeeded issues exactly one logout
\* before it ends, however it ends, and closes the fetch command before that
\* logout (stated for the executions that are not killed from outside).
C18_SessionReleased ==
    (/\ pc \in {"returned", "exited"}
     /\ InOps("Login")
     /\ "Login" \notin errs
     /\ "Interrupt" \notin errs)
    => /\ Count("Logout") = 1
       /\ InOps("Fetch") =>
            \E i \in Positions("FetchClose") :
                \A j \in Positions("Logout") : i < j

\* C19: every path of a returned Result names a file that exists when Sync
\* returns; a path is appended to NewEmails while its file does not exist yet,
\* and a run whose write failed returns no Result.
C19_ResultReflectsDisk ==
    /\ ret.kind = "result" =>
        /\ \A i \in DOMAIN ret.res.NewEmails : files[ret.res.NewEmails[i]].exists
        /\ \A i \in DOMAIN ret.res.ExistingEmails :
            files[ret.res.ExistingEmails[i]].exists
    /\ pc \in {"ReadAll", "WriteFile"} =>
        (Last(result.NewEmails) = Target /\ ~files[Target].exists)
    /\ "WriteFile" \in errs => ret.kind # "result"

\* A run has returned a Result with a new path, which it appended before the
\* write, and the file is there.
C19_Witness ==
    /\ ReturnedResult
    /\ Len(ret.res.NewEmails) = 1
    /\ ops[Len(ops) - 3] = "Stat"
    /\ ops[Len(ops) - 2] = "WriteFile"
    /\ files[ret.res.NewEmails[1]].exists
    /\ ~files0[ret.res.NewEmails[1]].exists

====
